---- MODULE Spec2Model ----
(***************************************************************************)
(* Model of Evaluation_OFFdata.ipynb: token cleaning, precision / recall / *)
(* F1 scoring, the CSV cache of detections, the selection of the top       *)
(* scoring images and the final per-engine average.                        *)
(*                                                                         *)
(* Conventions.                                                            *)
(*  - A Python str is a sequence of characters; a character is a one       *)
(*    letter TLA+ string, or "U+XXXX" for a character outside ASCII.       *)
(*  - Python lists are sequences; Python index i is position i+1 here.     *)
(*  - A Python number is an exact rational <<num, den>> in lowest terms    *)
(*    with den > 0.  <<0, 0>> stands for a raised ZeroDivisionError.       *)
(*    Floating point rounding is not modelled.                             *)
(*  - n (1000 in the notebook) and the 210 of top210 are scaled down.      *)
(***************************************************************************)
EXTENDS Integers, Sequences, FiniteSets, TLC

VARIABLES
    call,        \* harness: the function call under examination
    ret,         \* harness: the value it returned
    done,        \* harness: TRUE once the call has returned
    pc,          \* notebook: the next cell to run
    data,        \* notebook: data.ingredients_text, one raw string per row
    ocr,         \* the three external OCR services, as functions of the image
    order,       \* how numpy's argsort orders equal keys
    ingredients, \* notebook global ingredients
    texts,       \* xxx_texts of each engine: the raw responses for all images
    detected,    \* xxx_ingredients of each engine (detection cell or load cell)
    files,       \* xxx_output.csv of each engine: the rows after the header
    scores,      \* xxx_scores of each engine
    top,         \* [xxx_imgs, a_xxx_ings] of each engine, as returned by top210
    top_det,     \* top_xxx_ingredients of each top set, as returned by run_all
    top_s,       \* top_xxx_scores of each top set, as returned by top_scores
    printed,     \* the lines printed by the cell "Average Scores for All Top Images"
    reruns       \* <<e, l, t>>: engine e's load cell was run again l times and
                 \* its top210 cell t times

harness == <<call, ret, done>>
notebook == <<pc, data, ocr, order, ingredients, texts, detected, files, scores,
              top, top_det, top_s, printed, reruns>>
vars == <<call, ret, done, pc, data, ocr, order, ingredients, texts, detected,
          files, scores, top, top_det, top_s, printed, reruns>>

----------------------------------------------------------------------------
(* Bounds of the inputs *)

MaxWordLen == 3   \* characters of a word given to clean_word
MaxTextLen == 5   \* characters of a text given to clean_text(text, split=True)
MaxListLen == 3   \* tokens of a list given to clean_text(text, split=False)
MaxDetLen == 2    \* words of a detected or actual list given to the metrics
MaxUnreadable == 2 \* (service, image) pairs where the service reads no word
MaxBlankRerun == 0 \* the same, in the runs where cells are run again
MaxReruns == 2    \* times the cells of an engine are run again

----------------------------------------------------------------------------
(* Generic helpers *)

Range(s) == {s[k] : k \in 1..Len(s)}

RECURSIVE Flatten(_)
Flatten(ss) == IF ss = <<>> THEN <<>> ELSE Head(ss) \o Flatten(Tail(ss))

Map(Op(_), s) == [k \in 1..Len(s) |-> Op(s[k])]

SeqsUpTo(S, m) == UNION {[1..k -> S] : k \in 0..m}

----------------------------------------------------------------------------
(* Characters and the str methods the notebook uses *)

AsciiLower == {"a","b","c","d","e","f","g","h","i","j","k","l","m",
               "n","o","p","q","r","s","t","u","v","w","x","y","z"}
AsciiUpper == {"A","B","C","D","E","F","G","H","I","J","K","L","M",
               "N","O","P","Q","R","S","T","U","V","W","X","Y","Z"}
AsciiLetter == AsciiLower \cup AsciiUpper
Digit == {"0","1","2","3","4","5","6","7","8","9"}
Whitespace == {" ", "\t", "\n", "\r"}
\* string.punctuation inside the character class '[' + string.punctuation + ']':
\* the backslash of punctuation escapes the ']' after it, so it is not a member.
PunctuationClass == {"!", "#", "$", "%", "&", "'", "(", ")", "*", "+", ",",
                     "-", ".", "/", ":", ";", "<", "=", ">", "?", "@", "[", "]",
                     "^", "_", "{", "|", "}", "~", "QUOTATION MARK", "GRAVE ACCENT"}

LowerSeq == <<"a","b","c","d","e","f","g","h","i","j","k","l","m",
             "n","o","p","q","r","s","t","u","v","w","x","y","z">>
UpperSeq == <<"A","B","C","D","E","F","G","H","I","J","K","L","M",
             "N","O","P","Q","R","S","T","U","V","W","X","Y","Z">>

\* str.lower() on one character.  U+00C9 is E with acute (lowercase U+00E9),
\* U+212A is the Kelvin sign (lowercase is ASCII k), U+0130 is dotted capital I
\* (lowercase is ASCII i followed by the combining dot U+0307).
lower_char(c) ==
    IF c \in AsciiUpper THEN <<LowerSeq[CHOOSE k \in 1..26 : UpperSeq[k] = c]>>
    ELSE IF c = "U+00C9" THEN <<"U+00E9">>
    ELSE IF c = "U+212A" THEN <<"k">>
    ELSE IF c = "U+0130" THEN <<"i", "U+0307">>
    ELSE <<c>>

lower(s) == Flatten([k \in 1..Len(s) |-> lower_char(s[k])])

RECURSIVE lstrip(_)
lstrip(s) == IF s # <<>> /\ Head(s) \in Whitespace THEN lstrip(Tail(s)) ELSE s

RECURSIVE rstrip(_)
rstrip(s) ==
    IF s # <<>> /\ s[Len(s)] \in Whitespace THEN rstrip(SubSeq(s, 1, Len(s) - 1)) ELSE s

strip(s) == rstrip(lstrip(s))

\* re.sub('[^a-zA-Z]+', '', s)
RECURSIVE sub_non_letters(_)
sub_non_letters(s) ==
    IF s = <<>> THEN <<>>
    ELSE IF Head(s) \in AsciiLetter THEN <<Head(s)>> \o sub_non_letters(Tail(s))
    ELSE sub_non_letters(Tail(s))

\* re.sub(class, ' ', s) for a one-character class
sub_space(class, s) == [k \in 1..Len(s) |-> IF s[k] \in class THEN " " ELSE s[k]]

\* str.split(): the maximal runs of non-whitespace characters, in order
RECURSIVE split_ws(_, _)
split_ws(s, cur) ==
    IF s = <<>> THEN (IF cur = <<>> THEN <<>> ELSE <<cur>>)
    ELSE IF Head(s) \in Whitespace
         THEN (IF cur = <<>> THEN <<>> ELSE <<cur>>) \o split_ws(Tail(s), <<>>)
         ELSE split_ws(Tail(s), Append(cur, Head(s)))

\* str.split(sep) for a one-character sep: always at least one piece
RECURSIVE split_on(_, _, _)
split_on(s, sep, cur) ==
    IF s = <<>> THEN <<cur>>
    ELSE IF Head(s) = sep THEN <<cur>> \o split_on(Tail(s), sep, <<>>)
    ELSE split_on(Tail(s), sep, Append(cur, Head(s)))

\* Code point order of the ASCII lowercase letters, and Python's str '<'
Ord(c) == CHOOSE k \in 1..26 : LowerSeq[k] = c

RECURSIVE str_lt(_, _)
str_lt(u, v) ==
    IF v = <<>> THEN FALSE
    ELSE IF u = <<>> THEN TRUE
    ELSE IF Head(u) = Head(v) THEN str_lt(Tail(u), Tail(v))
    ELSE Ord(Head(u)) < Ord(Head(v))

\* sorted(S) for a set of strings over a-z
RECURSIVE sorted(_)
sorted(S) ==
    IF S = {} THEN <<>>
    ELSE LET m == CHOOSE x \in S : \A y \in S \ {x} : str_lt(x, y)
         IN <<m>> \o sorted(S \ {m})

----------------------------------------------------------------------------
(* clean_word, clean_text *)

\* variant of clean_word without the length rule (sensitivity of C6)
clean_word_no_length_rule(word) == sub_non_letters(strip(lower(word)))

clean_word(word) ==
    LET c_word == sub_non_letters(strip(lower(word)))
    IN IF Len(c_word) < 2 THEN <<>> ELSE c_word

\* variant of clean_text without filter(None, ...) (sensitivity of C7)
clean_text_keep_empty(text, split) ==
    LET c_text == IF split = FALSE
                  THEN Map(clean_word, text)
                  ELSE Map(clean_word,
                           split_ws(sub_space(PunctuationClass, sub_space(Digit, text)),
                                    <<>>))
    IN IF <<>> \in Range(c_text) THEN <<<<>>>> \o sorted(Range(c_text) \ {<<>>})
       ELSE sorted(Range(c_text))

clean_text(text, split) ==
    LET c_text == IF split = FALSE
                  THEN Map(clean_word, text)
                  ELSE Map(clean_word,
                           split_ws(sub_space(PunctuationClass, sub_space(Digit, text)),
                                    <<>>))
    IN sorted(Range(c_text) \ {<<>>})

----------------------------------------------------------------------------
(* Python numbers as exact rationals *)

RECURSIVE GCD(_, _)
GCD(a, b) == IF b = 0 THEN a ELSE GCD(b, a % b)

Abs(x) == IF x < 0 THEN -x ELSE x

\* num / den for integers num and den > 0, in lowest terms
Frac(num, den) == LET g == GCD(Abs(num), den) IN <<num \div g, den \div g>>

Zero == <<0, 1>>
int(n) == <<n, 1>>
ZeroDivisionError == <<0, 0>>
Raised(x) == x[2] = 0

\* x / y
truediv(x, y) ==
    IF Raised(x) \/ Raised(y) \/ y[1] = 0 THEN ZeroDivisionError
    ELSE IF y[1] > 0 THEN Frac(x[1] * y[2], x[2] * y[1])
    ELSE Frac(-(x[1] * y[2]), -(x[2] * y[1]))

mul(x, y) == IF Raised(x) \/ Raised(y) THEN ZeroDivisionError
             ELSE Frac(x[1] * y[1], x[2] * y[2])

add(x, y) == IF Raised(x) \/ Raised(y) THEN ZeroDivisionError
             ELSE Frac(x[1] * y[2] + y[1] * x[2], x[2] * y[2])

neg(x) == <<-x[1], x[2]>>

lt(x, y) == x[1] * y[2] < y[1] * x[2]

\* sum(list)
RECURSIVE sum(_)
sum(xs) == IF xs = <<>> THEN Zero ELSE add(Head(xs), sum(Tail(xs)))

----------------------------------------------------------------------------
(* precision, recall, F1score *)

\* dw in actual_ingredients, for a list actual_ingredients
in_list(dw, actual_ingredients) ==
    \E j \in 1..Len(actual_ingredients) : actual_ingredients[j] = dw

\* dw in s, for a str s: dw is a substring of s
in_str(dw, s) ==
    \E a \in 1..(Len(s) + 1) :
        a + Len(dw) - 1 <= Len(s) /\ SubSeq(s, a, a + Len(dw) - 1) = dw

\* sum([dw in actual_ingredients for dw in detected_words])
true_positives(detected_words, actual_ingredients) ==
    Cardinality({k \in 1..Len(detected_words) :
                    in_list(detected_words[k], actual_ingredients)})

\* variant of precision matching substrings of the actual words (sensitivity of C1)
precision_substring(ing_lst, i, ings) ==
    LET detected_words == ing_lst[i]
        actual_ingredients == ings[i]
    IN IF Len(detected_words) = 0 THEN Zero
       ELSE LET tp == Cardinality({k \in 1..Len(detected_words) :
                        \E j \in 1..Len(actual_ingredients) :
                            in_str(detected_words[k], actual_ingredients[j])})
                p == Len(detected_words)
            IN truediv(int(tp), int(p))

precision(ing_lst, i, ings) ==
    LET detected_words == ing_lst[i]
        actual_ingredients == ings[i]
    IN IF Len(detected_words) = 0 THEN Zero
       ELSE LET tp == true_positives(detected_words, actual_ingredients)
                p == Len(detected_words)
            IN truediv(int(tp), int(p))

\* variant of recall dividing by len(detected_words) (sensitivity of C2)
recall_by_detected(ing_lst, i, ings) ==
    LET detected_words == ing_lst[i]
        actual_ingredients == ings[i]
    IN IF Len(detected_words) = 0 THEN Zero
       ELSE LET tp == true_positives(detected_words, actual_ingredients)
                a == Len(detected_words)
            IN truediv(int(tp), int(a))

\* variant of recall without the empty-detection guard (sensitivity of C8)
recall_no_guard(ing_lst, i, ings) ==
    LET detected_words == ing_lst[i]
        actual_ingredients == ings[i]
    IN LET tp == true_positives(detected_words, actual_ingredients)
           a == Len(actual_ingredients)
       IN truediv(int(tp), int(a))

recall(ing_lst, i, ings) ==
    LET detected_words == ing_lst[i]
        actual_ingredients == ings[i]
    IN IF Len(detected_words) = 0 THEN Zero
       ELSE LET tp == true_positives(detected_words, actual_ingredients)
                a == Len(actual_ingredients)
            IN truediv(int(tp), int(a))

\* variant of F1score taking the arithmetic mean (sensitivity of C3)
F1score_mean(ing_lst, i, ings) ==
    LET p == precision(ing_lst, i, ings)
        r == recall(ing_lst, i, ings)
    IN IF Raised(p) \/ Raised(r) THEN ZeroDivisionError
       ELSE IF p = Zero /\ r = Zero THEN Zero
       ELSE truediv(add(p, r), int(2))

F1score(ing_lst, i, ings) ==
    LET p == precision(ing_lst, i, ings)
        r == recall(ing_lst, i, ings)
    IN IF Raised(p) \/ Raised(r) THEN ZeroDivisionError
       ELSE IF p = Zero /\ r = Zero THEN Zero
       ELSE truediv(mul(mul(int(2), p), r), add(p, r))

----------------------------------------------------------------------------
(* The notebook: its constants, the OCR services, the CSV cache *)

n == 3        \* rows sampled from the dataset (1000 in the notebook)
N210 == 2     \* images kept by top210 (210 in the notebook)

model == <<"Pytesseract", "Rekognition", "Textract">>

\* The image of row i is identified with i: imgs = [url_to_image(url) for url in ...]
imgs == [i \in 1..n |-> i]

DQUOTE == "QUOTATION MARK"

\* run pytesseract / rekognition / textract on an image: the service's response
pytess(img) == ocr["pyt"][img]
rekogn(img) == ocr["rek"][img]
textract(img) == ocr["tex"][img]

\* [text['DetectedText'] if text['Type']=='WORD' else "" for text in texts['TextDetections']]
rek_words_of(response) ==
    [k \in 1..Len(response) |->
        IF response[k].Type = "WORD" THEN response[k].DetectedText ELSE <<>>]

\* [text['Text'] if text['BlockType']=='WORD' else "" for text in texts['Blocks']]
tex_words_of(response) ==
    [k \in 1..Len(response) |->
        IF response[k].BlockType = "WORD" THEN response[k].Text ELSE <<>>]

\* str(list) of a list of words over a-z: ['ab', 'cd']
RECURSIVE repr_items(_)
repr_items(L) ==
    IF L = <<>> THEN <<>>
    ELSE <<"'">> \o Head(L) \o <<"'">>
         \o (IF Len(L) > 1 THEN <<",", " ">> ELSE <<>>) \o repr_items(Tail(L))

repr_list(L) == <<"[">> \o repr_items(L) \o <<"]">>

\* csv writer, QUOTE_MINIMAL: a field holding the delimiter or the quote character
\* is wrapped in quote characters
csv_field(field) ==
    IF "," \in Range(field) \/ DQUOTE \in Range(field)
    THEN <<DQUOTE>> \o field \o <<DQUOTE>>
    ELSE field

\* DataFrame({'detected': lst}).to_csv(file, index=False): the rows after the header
to_csv(lst) == [i \in 1..Len(lst) |-> csv_field(repr_list(lst[i]))]

\* pd.read_csv(file).detected: the fields of the rows, unquoted
read_csv(rows) ==
    [i \in 1..Len(rows) |->
        IF rows[i] # <<>> /\ Head(rows[i]) = DQUOTE
        THEN SubSeq(rows[i], 2, Len(rows[i]) - 1)
        ELSE rows[i]]

\* [[re.sub('[^a-zA-Z]+', '', e) for e in l.split(",")] for l in xxx_data.detected]
load_detected(column) ==
    [i \in 1..Len(column) |-> Map(sub_non_letters, split_on(column[i], ",", <<>>))]

----------------------------------------------------------------------------
(* top210, run_all, top_scores *)

\* keys.argsort(): the indices in ascending order of key; equal keys in the order
\* the sort leaves them, given by the ranks in tie
argsort(keys, tie) ==
    LET before(i, j) == lt(keys[i], keys[j]) \/ (keys[i] = keys[j] /\ tie[i] < tie[j])
    IN [k \in 1..Len(keys) |->
           CHOOSE i \in 1..Len(keys) :
               Cardinality({j \in 1..Len(keys) : before(j, i)}) = k - 1]

first(s, m) == SubSeq(s, 1, IF Len(s) < m THEN Len(s) ELSE m)

\* variant of top210 sorting s instead of -s (sensitivity of C4)
top210_lowest(scores_) ==
    LET inds == first(argsort(scores_, order), N210)
        imgs210 == [k \in 1..Len(inds) |-> imgs[inds[k]]]
        a_ings == [k \in 1..Len(inds) |-> ingredients[inds[k]]]
    IN <<imgs210, a_ings>>

\* variant of top210 taking the first rows' ingredients (sensitivity of C10)
top210_misaligned(scores_) ==
    LET s == Map(neg, scores_)
        inds == first(argsort(s, order), N210)
        imgs210 == [k \in 1..Len(inds) |-> imgs[inds[k]]]
        a_ings == first(ingredients, N210)
    IN <<imgs210, a_ings>>

top210(scores_) ==
    LET s == Map(neg, scores_)
        inds == first(argsort(s, order), N210)
        imgs210 == [k \in 1..Len(inds) |-> imgs[inds[k]]]
        a_ings == [k \in 1..Len(inds) |-> ingredients[inds[k]]]
    IN <<imgs210, a_ings>>

\* variant of run_all returning [r, p, t] (sensitivity of C5)
run_all_swapped(imgs_, n_) ==
    LET p_ingredients == [k \in 1..Len(imgs_) |-> clean_text(pytess(imgs_[k]), FALSE)]
        r_ingredients ==
            [k \in 1..Len(imgs_) |-> clean_text(rek_words_of(rekogn(imgs_[k])), FALSE)]
        t_ingredients ==
            [k \in 1..Len(imgs_) |-> clean_text(tex_words_of(textract(imgs_[k])), FALSE)]
    IN <<r_ingredients, p_ingredients, t_ingredients>>

\* run_all(imgs, n)[0]
run_all(imgs_, n_) ==
    LET p_texts == Map(pytess, imgs_)
        p_ingredients == [k \in 1..Len(p_texts) |-> clean_text(p_texts[k], FALSE)]
        r_texts == Map(rekogn, imgs_)
        r_words == Map(rek_words_of, r_texts)
        r_ingredients == [k \in 1..Len(r_words) |-> clean_text(r_words[k], FALSE)]
        t_texts == Map(textract, imgs_)
        t_words == Map(tex_words_of, t_texts)
        t_ingredients == [k \in 1..Len(t_words) |-> clean_text(t_words[k], FALSE)]
    IN <<p_ingredients, r_ingredients, t_ingredients>>

top_scores(top_detections, top_ingredients) ==
    [e \in 1..3 |-> [i \in 1..N210 |-> F1score(top_detections[e], i, top_ingredients)]]

AnyRaised(xs) == \E k \in 1..Len(xs) : Raised(xs[k])

----------------------------------------------------------------------------
(* The notebook run top to bottom, one action per cell.  The three engines'   *)
(* cells are copies of each other, so each action takes the engine e in 1..3  *)
(* (1 Pytesseract, 2 Rekognition, 3 Textract).  pc = 0: a cell raised.        *)

Null == <<>>

Cells ==
    <<<<"ingredients", 0>>,
      <<"apply", 1>>, <<"words", 1>>, <<"save", 1>>, <<"load", 1>>, <<"top210", 1>>,
      <<"apply", 2>>, <<"words", 2>>, <<"save", 2>>, <<"load", 2>>, <<"top210", 2>>,
      <<"apply", 3>>, <<"words", 3>>, <<"save", 3>>, <<"load", 3>>, <<"top210", 3>>,
      <<"run_all", 1>>, <<"top_scores", 1>>,
      <<"run_all", 2>>, <<"top_scores", 2>>,
      <<"run_all", 3>>, <<"top_scores", 3>>,
      <<"average", 0>>>>

At(cell, e) == pc \in 1..Len(Cells) /\ Cells[pc] = <<cell, e>>

\* the cell has run (and did not raise)
Ran(cell, e) == \E j \in 1..(pc - 1) : Cells[j] = <<cell, e>>

\* Inputs: the ground truth texts of the dataset, and for each service the
\* response for an image it reads and for an image it reads no word from
DataTexts == {<<"a", "b", ",", " ", "b", "a">>, <<"A", "b", "1">>}
PytRead == <<<<"b", "a">>, <<"A", "b", ",">>, <<>>>>
PytBlank == <<<<"a">>, <<"1">>>>
RekRead == <<[DetectedText |-> <<"a", "b", " ", "b", "a">>, Type |-> "LINE"],
             [DetectedText |-> <<"a", "b">>, Type |-> "WORD"]>>
RekBlank == <<[DetectedText |-> <<"b", "a">>, Type |-> "LINE"]>>
TexRead == <<[BlockType |-> "PAGE", Text |-> <<>>],
             [BlockType |-> "WORD", Text |-> <<"b", "a">>]>>
TexBlank == <<[BlockType |-> "LINE", Text |-> <<"a", "b">>]>>

\* over the three services, at most MaxUnreadable images get the blank response
Services ==
    {o \in [pyt : [1..n -> {PytRead, PytBlank}],
            rek : [1..n -> {RekRead, RekBlank}],
            tex : [1..n -> {TexRead, TexBlank}]] :
        Cardinality({i \in 1..n : o.pyt[i] = PytBlank})
          + Cardinality({i \in 1..n : o.rek[i] = RekBlank})
          + Cardinality({i \in 1..n : o.tex[i] = TexBlank}) <= MaxUnreadable}

Permutations_(m) == {f \in [1..m -> 1..m] : \A i, j \in 1..m : i # j => f[i] # f[j]}

Init ==
    /\ call = Null /\ ret = Null /\ done = FALSE
    /\ pc = 1
    /\ data \in [1..n -> DataTexts]
    /\ ocr \in Services
    /\ order \in Permutations_(n)
    /\ ingredients = Null
    /\ texts = [e \in 1..3 |-> Null]
    /\ detected = [e \in 1..3 |-> Null]
    /\ files = [e \in 1..3 |-> Null]
    /\ scores = [e \in 1..3 |-> Null]
    /\ top = [e \in 1..3 |-> Null]
    /\ top_det = [e \in 1..3 |-> Null]
    /\ top_s = [e \in 1..3 |-> Null]
    /\ printed = Null
    /\ reruns = <<0, 0, 0>>

\* ingredients = [clean_text(ing) for ing in data.ingredients_text]
CleanIngredients ==
    /\ At("ingredients", 0)
    /\ ingredients' = [i \in 1..n |-> clean_text(data[i], TRUE)]
    /\ pc' = pc + 1
    /\ UNCHANGED <<harness, reruns, data, ocr, order, texts, detected, files, scores, top,
                    top_det, top_s, printed>>

\* xxx_texts = [engine(img) for img in imgs]
ApplyEngine(e) ==
    /\ At("apply", e)
    /\ texts' = [texts EXCEPT ![e] =
                    [i \in 1..n |-> CASE e = 1 -> pytess(imgs[i])
                                      [] e = 2 -> rekogn(imgs[i])
                                      [] e = 3 -> textract(imgs[i])]]
    /\ pc' = pc + 1
    /\ UNCHANGED <<harness, reruns, data, ocr, order, ingredients, detected, files, scores,
                    top, top_det, top_s, printed>>

\* xxx_ingredients = [clean_text(text, split=False) for text in words]
DetectedWords(e) ==
    /\ At("words", e)
    /\ LET words == CASE e = 1 -> texts[1]
                      [] e = 2 -> Map(rek_words_of, texts[2])
                      [] e = 3 -> Map(tex_words_of, texts[3])
       IN detected' = [detected EXCEPT ![e] =
                          [i \in 1..n |-> clean_text(words[i], FALSE)]]
    /\ pc' = pc + 1
    /\ UNCHANGED <<harness, reruns, data, ocr, order, ingredients, texts, files, scores,
                    top, top_det, top_s, printed>>

\* variant of the save cells writing one file shared by the engines
\* (sensitivity of C11)
SaveOutput_shared(e) ==
    /\ At("save", e)
    /\ files' = [k \in 1..3 |-> to_csv(detected[e])]
    /\ pc' = pc + 1
    /\ UNCHANGED <<harness, reruns, data, ocr, order, ingredients, texts, detected,
                    scores, top, top_det, top_s, printed>>

\* pd.DataFrame({'detected': xxx_ingredients}).to_csv('xxx_output.csv', index=False)
SaveOutput(e) ==
    /\ At("save", e)
    /\ files' = [files EXCEPT ![e] = to_csv(detected[e])]
    /\ pc' = pc + 1
    /\ UNCHANGED <<harness, reruns, data, ocr, order, ingredients, texts, detected, scores,
                    top, top_det, top_s, printed>>

\* the load cell: read the file, rebuild xxx_ingredients, score every row
LoadAndScore(e) ==
    /\ At("load", e)
    /\ LET xxx_data == read_csv(files[e])
           xxx_ingredients == load_detected(xxx_data)
           xxx_scores == [i \in 1..n |-> F1score(xxx_ingredients, i, ingredients)]
       IN /\ detected' = [detected EXCEPT ![e] = xxx_ingredients]
          /\ IF AnyRaised(xxx_scores)
             THEN pc' = 0 /\ UNCHANGED scores
             ELSE pc' = pc + 1 /\ scores' = [scores EXCEPT ![e] = xxx_scores]
    /\ UNCHANGED <<harness, reruns, data, ocr, order, ingredients, texts, files, top,
                    top_det, top_s, printed>>

\* xxx_imgs, a_xxx_ings = top210(xxx_scores)
Top210(e) ==
    /\ At("top210", e)
    /\ top' = [top EXCEPT ![e] = top210(scores[e])]
    /\ pc' = pc + 1
    /\ UNCHANGED <<harness, reruns, data, ocr, order, ingredients, texts, detected, files,
                    scores, top_det, top_s, printed>>

\* top_xxx = run_all(xxx_imgs, 210); top_xxx_ingredients = top_xxx[0]
RunAll(e) ==
    /\ At("run_all", e)
    /\ top_det' = [top_det EXCEPT ![e] = run_all(top[e][1], N210)]
    /\ pc' = pc + 1
    /\ UNCHANGED <<harness, reruns, data, ocr, order, ingredients, texts, detected, files,
                    scores, top, top_s, printed>>

\* top_xxx_scores = top_scores(top_xxx_ingredients, a_xxx_ings)
TopScores(e) ==
    /\ At("top_scores", e)
    /\ LET ts == top_scores(top_det[e], top[e][2])
       IN IF \E m \in 1..3 : AnyRaised(ts[m])
          THEN pc' = 0 /\ UNCHANGED top_s
          ELSE pc' = pc + 1 /\ top_s' = [top_s EXCEPT ![e] = ts]
    /\ UNCHANGED <<harness, reruns, data, ocr, order, ingredients, texts, detected, files,
                    scores, top, top_det, printed>>

\* for i in range(3): print(model[i], (sum(top_pyt_scores[i]) + ...) / (3*210))
AverageScores ==
    /\ At("average", 0)
    /\ printed' = [i \in 1..3 |->
                      <<model[i],
                        truediv(add(add(sum(top_s[1][i]), sum(top_s[2][i])),
                                    sum(top_s[3][i])),
                                int(3 * N210))>>]
    /\ pc' = pc + 1
    /\ UNCHANGED <<harness, reruns, data, ocr, order, ingredients, texts, detected, files,
                    scores, top, top_det, top_s>>

Next ==
    \/ CleanIngredients
    \/ \E e \in 1..3 : ApplyEngine(e)
    \/ \E e \in 1..3 : DetectedWords(e)
    \/ \E e \in 1..3 : SaveOutput(e)
    \/ \E e \in 1..3 : LoadAndScore(e)
    \/ \E e \in 1..3 : Top210(e)
    \/ \E e \in 1..3 : RunAll(e)
    \/ \E e \in 1..3 : TopScores(e)
    \/ AverageScores

Spec == Init /\ [][Next]_vars

----------------------------------------------------------------------------
(* Running cells again.  After an engine's load cell has run (so its file is  *)
(* saved), its load cell and its top210 cell may be run again at any point of *)
(* the first pass over the three engines, the detection cells being skipped;  *)
(* the cells of the other engines run in between as the pass goes on.         *)

Blanks(o) ==
    Cardinality({i \in 1..n : o.pyt[i] = PytBlank})
      + Cardinality({i \in 1..n : o.rek[i] = RekBlank})
      + Cardinality({i \in 1..n : o.tex[i] = TexBlank})

InitRerun == Init /\ Blanks(ocr) <= MaxBlankRerun

MayRerun(e) == reruns[1] \in {0, e} /\ reruns[2] + reruns[3] < MaxReruns

\* the load cell of engine e, run again
RerunLoadAndScore(e) ==
    /\ Ran("load", e)
    /\ MayRerun(e)
    /\ LET xxx_data == read_csv(files[e])
           xxx_ingredients == load_detected(xxx_data)
           xxx_scores == [i \in 1..n |-> F1score(xxx_ingredients, i, ingredients)]
       IN /\ detected' = [detected EXCEPT ![e] = xxx_ingredients]
          /\ IF AnyRaised(xxx_scores)
             THEN UNCHANGED scores
             ELSE scores' = [scores EXCEPT ![e] = xxx_scores]
    /\ reruns' = <<e, reruns[2] + 1, reruns[3]>>
    /\ UNCHANGED <<harness, pc, data, ocr, order, ingredients, texts, files, top,
                    top_det, top_s, printed>>

\* the top210 cell of engine e, run again
RerunTop210(e) ==
    /\ Ran("top210", e)
    /\ MayRerun(e)
    /\ top' = [top EXCEPT ![e] = top210(scores[e])]
    /\ reruns' = <<e, reruns[2], reruns[3] + 1>>
    /\ UNCHANGED <<harness, pc, data, ocr, order, ingredients, texts, detected, files,
                    scores, top_det, top_s, printed>>

NextRerun ==
    \/ CleanIngredients
    \/ \E e \in 1..3 : ApplyEngine(e)
    \/ \E e \in 1..3 : DetectedWords(e)
    \/ \E e \in 1..3 : SaveOutput(e)
    \/ \E e \in 1..3 : LoadAndScore(e)
    \/ \E e \in 1..3 : Top210(e)
    \/ \E e \in 1..3 : RerunLoadAndScore(e)
    \/ \E e \in 1..3 : RerunTop210(e)

SpecRerun == InitRerun /\ [][NextRerun]_vars

\* C11: once an engine's file is saved, running its load-and-score cell again
\* leaves its scores list as it was and running its top210 cell again leaves
\* its selection as it was, every time and whatever cells of the other engines
\* ran in between.
C11_RerunStable ==
    [][\A e \in 1..3 :
          /\ RerunLoadAndScore(e) => scores'[e] = scores[e]
          /\ RerunTop210(e) => top'[e] = top[e]]_vars

C11_Witness ==
    /\ reruns = <<1, 1, 1>>
    /\ Ran("top210", 3)
    /\ \E i \in 1..n : scores[1][i] # Zero
    /\ scores[2] # scores[1]
    /\ top[2] # top[1]

----------------------------------------------------------------------------
(* Claims about the notebook run *)

\* x is a returned number and equals the quotient num / den of integers, den # 0
EqualsQuotient(x, num, den) == den > 0 /\ x[2] > 0 /\ x[1] * den = num * x[2]

\* the engine each printed model name stands for
EngineOf == [Pytesseract |-> "pyt", Rekognition |-> "rek", Textract |-> "tex"]

\* the cleaned words the named engine detects in an image
Detection(key, img) ==
    clean_text(CASE key = "pyt" -> ocr.pyt[img]
                 [] key = "rek" -> rek_words_of(ocr.rek[img])
                 [] key = "tex" -> tex_words_of(ocr.tex[img]),
               FALSE)

\* the F1 score of one detected list against one actual list
Score(D, A) == F1score(<<D>>, 1, <<A>>)

\* C4: top210 selects exactly N210 distinct sample indices, every selected one
\* scoring at least as high as every one not selected, listed in non-increasing
\* score order.
C4_Top210 ==
    \A e \in 1..3 :
        (Ran("top210", e) /\ Len(scores[e]) >= N210) =>
            LET sel == top[e][1]
                sc == scores[e]
            IN /\ Len(sel) = N210
               /\ Range(sel) \subseteq 1..Len(sc)
               /\ \A j, k \in 1..Len(sel) : j # k => sel[j] # sel[k]
               /\ \A i \in Range(sel) : \A j \in (1..Len(sc)) \ Range(sel) :
                      ~lt(sc[i], sc[j])
               /\ \A j, k \in 1..Len(sel) : j < k => ~lt(sc[sel[j]], sc[sel[k]])

C4_Witness ==
    /\ Ran("top210", 1)
    /\ scores[1] = <<<<2, 3>>, <<1, 1>>, <<2, 3>>>>
    /\ top[1][1] = <<2, 3>>

\* C5: the value printed for each model is the sum of that engine's F1 scores
\* on the three top sets divided by 3 * N210, and position i of model, of
\* run_all's detection lists and of top_scores' result is the same engine.
TotalOn(key, S) ==
    sum([k \in 1..N210 |-> Score(Detection(key, top[S][1][k]), top[S][2][k])])

C5_FinalAverage ==
    Ran("average", 0) =>
        \A i \in 1..3 :
            LET key == EngineOf[model[i]]
                t1 == TotalOn(key, 1)
                t2 == TotalOn(key, 2)
                t3 == TotalOn(key, 3)
            IN /\ printed[i][1] = model[i]
               /\ EqualsQuotient(printed[i][2],
                                  t1[1] * t2[2] * t3[2] + t2[1] * t1[2] * t3[2]
                                    + t3[1] * t1[2] * t2[2],
                                  t1[2] * t2[2] * t3[2] * 3 * N210)
               /\ \A S \in 1..3 : \A k \in 1..N210 :
                      LET d == Detection(key, top[S][1][k])
                      IN /\ top_det[S][i][k] = d
                         /\ top_s[S][i][k] = Score(d, top[S][2][k])

C5_Witness ==
    /\ Ran("average", 0)
    /\ printed[1][1] = "Pytesseract"
    /\ lt(printed[3][2], printed[2][2])
    /\ lt(printed[2][2], printed[1][2])
    /\ lt(printed[1][2], <<1, 1>>)

\* C9: loading an engine's CSV file gives back exactly the detected word lists
\* that clean_text produced and the save cell wrote, the empty list included.
C9_RoundTrip ==
    \A e \in 1..3 :
        Ran("load", e) =>
            \A i \in 1..n :
                detected[e][i] = Detection(<<"pyt", "rek", "tex">>[e], imgs[i])

\* C10: in every top set, position k of each engine's detection list is computed
\* from image k of the set and scored against actual list k of the set, which
\* is the cleaned ground truth of the row image k came from.
C10_Aligned ==
    \A S \in 1..3 :
        Ran("top_scores", S) =>
            \A k \in 1..N210 :
                \E row \in 1..n :
                    LET truth == clean_text(data[row], TRUE)
                    IN /\ top[S][1][k] = imgs[row]
                       /\ top[S][2][k] = truth
                       /\ \A e \in 1..3 :
                             /\ top_det[S][e][k]
                                   = Detection(<<"pyt", "rek", "tex">>[e], imgs[row])
                             /\ top_s[S][e][k] = Score(top_det[S][e][k], truth)

C10_Witness ==
    /\ Ran("top_scores", 3)
    /\ top[3][1] = <<3, 1>>
    /\ top[3][2][1] # top[3][2][2]
    /\ top_det[3][1][1] # top_det[3][1][2]
    /\ top_s[3][1] # top_s[3][2]

----------------------------------------------------------------------------
(* Harness: one call of a pure function on an input drawn from a bounded set *)

NotebookIdle ==
    /\ pc = "harness"
    /\ data = Null /\ ocr = Null /\ order = Null /\ ingredients = Null
    /\ texts = Null
    /\ detected = Null /\ files = Null /\ scores = Null /\ top = Null
    /\ top_det = Null /\ top_s = Null /\ printed = Null /\ reruns = Null

WordChars == {"a", "b", "A", "1", " ", ",", "U+00C9", "U+212A", "U+0130"}
TextChars == {"a", "b", "A", "1", " ", ","}
Tokens == {<<>>, <<",">>, <<"a">>, <<"a", "b">>, <<"A", "b", ",">>, <<"b", "A">>,
           <<"b", "b">>, <<"a", "a">>}

Words == SeqsUpTo(WordChars, MaxWordLen)
Texts == SeqsUpTo(TextChars, MaxTextLen)
TokenLists == SeqsUpTo(Tokens, MaxListLen)

InitClean ==
    /\ call \in {[fn |-> "clean_word", arg |-> w, split |-> TRUE] : w \in Words}
             \cup {[fn |-> "clean_text", arg |-> t, split |-> TRUE] : t \in Texts}
             \cup {[fn |-> "clean_text", arg |-> l, split |-> FALSE] : l \in TokenLists}
    /\ ret = Null
    /\ done = FALSE
    /\ NotebookIdle

CallCleanWord ==
    /\ ~done
    /\ call.fn = "clean_word"
    /\ ret' = clean_word(call.arg)
    /\ done' = TRUE
    /\ UNCHANGED <<call, notebook>>

CallCleanText ==
    /\ ~done
    /\ call.fn = "clean_text"
    /\ ret' = clean_text(call.arg, call.split)
    /\ done' = TRUE
    /\ UNCHANGED <<call, notebook>>

NextClean == CallCleanWord \/ CallCleanText

SpecClean == InitClean /\ [][NextClean]_vars

----------------------------------------------------------------------------
(* Claims about clean_word and clean_text *)

NumAsciiLetters(s) == Cardinality({k \in 1..Len(s) : s[k] \in AsciiLetter})

WellFormedWord(r) ==
    r = <<>> \/ (Len(r) >= 2 /\ \A k \in 1..Len(r) : r[k] \in AsciiLower)

\* C6 (as stated): the result of clean_word is empty or has at least 2 characters
\* all in a-z, and it is empty exactly when the input itself contains fewer than
\* 2 ASCII letters.
C6_AsStated ==
    (done /\ call.fn = "clean_word") =>
        /\ WellFormedWord(ret)
        /\ (ret = <<>>) <=> (NumAsciiLetters(call.arg) < 2)

\* C6 (amended): the result of clean_word is empty or has at least 2 characters
\* all in a-z, and it is empty exactly when the lowercased input, word.lower(),
\* contains fewer than 2 ASCII letters.
C6_CleanWord ==
    (done /\ call.fn = "clean_word") =>
        /\ WellFormedWord(ret)
        /\ (ret = <<>>) <=> (NumAsciiLetters(lower(call.arg)) < 2)

C6_Witness ==
    /\ done /\ call.fn = "clean_word"
    /\ call.arg = <<"A", ",", "U+212A">>
    /\ ret = <<"a", "k">>

\* C7: for both values of split the list returned by clean_text has no empty
\* word, has no word twice and is in ascending order.
C7_CleanText ==
    (done /\ call.fn = "clean_text") =>
        /\ \A k \in 1..Len(ret) : ret[k] # <<>>
        /\ \A j, k \in 1..Len(ret) : j # k => ret[j] # ret[k]
        /\ \A j, k \in 1..Len(ret) : j < k => str_lt(ret[j], ret[k])

C7_Witness ==
    /\ done /\ call.fn = "clean_text" /\ call.split = FALSE
    /\ call.arg = <<<<"b", "A">>, <<",">>, <<"A", "b", ",">>>>
    /\ ret = <<<<"a", "b">>, <<"b", "a">>>>

----------------------------------------------------------------------------
(* Harness for precision, recall and F1score: two samples, the sample under *)
(* index i drawn freely, the other one from OtherSamples                    *)

MetricWords == {<<"a", "b">>, <<"b", "a">>, <<"a", "b", "b">>}
WordLists == SeqsUpTo(MetricWords, MaxDetLen)
OtherSamples == {<<<<<<"a", "b">>>>, <<<<"a", "b">>>>>>, <<<<>>, <<<<"b", "a">>>>>>}

MetricCalls ==
    {[fn |-> f, i |-> i,
      ing_lst |-> IF i = 1 THEN <<D, o[1]>> ELSE <<o[1], D>>,
      ingredients |-> IF i = 1 THEN <<A, o[2]>> ELSE <<o[2], A>>] :
        f \in {"precision", "recall", "F1score"}, i \in {1, 2},
        D \in WordLists, A \in WordLists, o \in OtherSamples}

InitMetric ==
    /\ call \in MetricCalls
    /\ ret = Null
    /\ done = FALSE
    /\ NotebookIdle

CallPrecision ==
    /\ ~done
    /\ call.fn = "precision"
    /\ ret' = precision(call.ing_lst, call.i, call.ingredients)
    /\ done' = TRUE
    /\ UNCHANGED <<call, notebook>>

CallRecall ==
    /\ ~done
    /\ call.fn = "recall"
    /\ ret' = recall(call.ing_lst, call.i, call.ingredients)
    /\ done' = TRUE
    /\ UNCHANGED <<call, notebook>>

CallF1score ==
    /\ ~done
    /\ call.fn = "F1score"
    /\ ret' = F1score(call.ing_lst, call.i, call.ingredients)
    /\ done' = TRUE
    /\ UNCHANGED <<call, notebook>>

NextMetric == CallPrecision \/ CallRecall \/ CallF1score

SpecMetric == InitMetric /\ [][NextMetric]_vars

----------------------------------------------------------------------------
(* Claims about precision, recall and F1score *)

D_ == call.ing_lst[call.i]
A_ == call.ingredients[call.i]

\* the detected words, counted with repetition, that are members of the actual list
NumFound(D, A) == Cardinality({k \in 1..Len(D) : D[k] \in Range(A)})

\* C1: for a non-empty detected list, precision returns (number of detected
\* words that are whole-token members of the actual list) / (number of detected
\* words).
C1_Precision ==
    (done /\ call.fn = "precision" /\ Len(D_) > 0) =>
        EqualsQuotient(ret, NumFound(D_, A_), Len(D_))

C1_Witness ==
    /\ done /\ call.fn = "precision"
    /\ D_ = <<<<"a", "b">>, <<"b", "a">>>>
    /\ A_ = <<<<"a", "b", "b">>, <<"b", "a">>>>
    /\ ret = <<1, 2>>

\* C2 (as stated): for every sample, recall returns (number of detected words
\* found in the actual list) / (number of words of the actual list).
C2_AsStated ==
    (done /\ call.fn = "recall") =>
        EqualsQuotient(ret, NumFound(D_, A_), Len(A_))

\* C2 (amended): for every sample whose actual list is non-empty, recall returns
\* (number of detected words found in the actual list) / (number of words of
\* the actual list).
C2_Recall ==
    (done /\ call.fn = "recall" /\ Len(A_) > 0) =>
        EqualsQuotient(ret, NumFound(D_, A_), Len(A_))

C2_Witness ==
    /\ done /\ call.fn = "recall"
    /\ D_ = <<<<"a", "b">>>>
    /\ A_ = <<<<"a", "b">>, <<"b", "a">>>>
    /\ ret = <<1, 2>>

IsDuplicateFree(L) == \A j, k \in 1..Len(L) : j # k => L[j] # L[k]

\* C3: whenever precision p and recall r of the sample are numbers, F1score
\* returns 0 if both are 0 and 2*p*r/(p+r) otherwise; and for a duplicate-free
\* non-empty detected list D and a non-empty actual list A it returns
\* 2*|D intersect A| / (|D| + |A|).
C3_F1score ==
    (done /\ call.fn = "F1score") =>
        LET p == precision(call.ing_lst, call.i, call.ingredients)
            r == recall(call.ing_lst, call.i, call.ingredients)
        IN /\ (~Raised(p) /\ ~Raised(r)) =>
                IF p[1] = 0 /\ r[1] = 0 THEN ret = Zero
                ELSE EqualsQuotient(ret, 2 * p[1] * r[1], p[1] * r[2] + r[1] * p[2])
           /\ (IsDuplicateFree(D_) /\ Len(D_) > 0 /\ Len(A_) > 0) =>
                EqualsQuotient(ret, 2 * Cardinality(Range(D_) \cap Range(A_)),
                               Len(D_) + Len(A_))

C3_Witness ==
    /\ done /\ call.fn = "F1score"
    /\ D_ = <<<<"a", "b">>, <<"b", "a">>>>
    /\ A_ = <<<<"a", "b">>>>
    /\ ret = <<2, 3>>

\* C8: when the detected list of the sample is empty, precision, recall and
\* F1score all return 0, whatever the actual list is, the empty one included.
C8_EmptyDetected ==
    (done /\ call.fn \in {"precision", "recall", "F1score"} /\ D_ = <<>>) =>
        ret = Zero

C8_Witness ==
    /\ done /\ call.fn = "F1score"
    /\ D_ = <<>>
    /\ A_ = <<>>
    /\ ret = Zero

====
